---- MODULE Spec2Model ----
(***************************************************************************)
(* A model of src/examples/s3_vectors_client.py: S3VectorsClient, a        *)
(* brute-force similarity search over vectors kept as one JSON object per  *)
(* key of an S3 bucket.                                                    *)
(*                                                                         *)
(* Strings are sequences of tokens (<<"vectors/", "a", ".json">> is the    *)
(* key "vectors/a.json"), so that building a key, matching a prefix and    *)
(* matching a suffix are computed and not assumed.  Vector components are  *)
(* integers (the floats of the source scaled by ten: cosine similarity     *)
(* does not depend on the scale) and a similarity is kept as an exact      *)
(* signed fraction, compared by cross multiplication.                      *)
(***************************************************************************)
EXTENDS Integers, Sequences, FiniteSets

VARIABLES
    store,   \* the bucket: key -> body of the object, or NoObject
    pc,      \* "idle": the caller is about to call; "done": a call returned
    last     \* the call that returned last: its arguments and what it gave

vars == <<store, pc, last>>

(***************************************************************************)
(* Bounds of the model.                                                    *)
(***************************************************************************)
\* the largest k a search is called with (the smallest is -1)
MaxK == 3
\* the longest batch handed to batch_insert_vectors
MaxBatch == 3
MaxListKeys == 4

(***************************************************************************)
(* Strings and keys.                                                       *)
(***************************************************************************)
DefaultPrefix == <<"vectors/">>
JsonSuffix == <<".json">>

\* the ids the caller uses
Ids == {<<"a">>, <<"b">>, <<"c">>, <<"d">>}

\* the ids the caller uses where listing is studied; the last is the id
\* "a.json"
ListIds == {<<"a">>, <<"b">>, <<"a", ".json">>}

\* f"vectors/{vector_id}.json"
KeyOf(vector_id) == DefaultPrefix \o vector_id \o JsonSuffix

\* str.startswith, which is how S3 applies Prefix=
StartsWith(s, prefix) ==
    /\ Len(prefix) <= Len(s)
    /\ SubSeq(s, 1, Len(prefix)) = prefix

\* str.endswith
EndsWith(s, suffix) ==
    /\ Len(suffix) <= Len(s)
    /\ SubSeq(s, Len(s) - Len(suffix) + 1, Len(s)) = suffix

RECURSIVE Replace(_, _)
\* s.replace(old, ''): every occurrence of old is taken out of s, from the
\* left, without overlap
Replace(s, old) ==
    IF old = <<>> \/ Len(s) < Len(old) THEN s
    ELSE IF SubSeq(s, 1, Len(old)) = old
         THEN Replace(SubSeq(s, Len(old) + 1, Len(s)), old)
         ELSE <<Head(s)>> \o Replace(Tail(s), old)

\* the keys other writers of the bucket use: one outside the prefix of the
\* client, one under it without the suffix
ForeignKeys == {<<"other/", "c", ".json">>, <<"vectors/", "notes", ".txt">>}

\* every key the model's bucket can hold, in the order S3 lists keys
\* (ascending UTF-8 binary order of the key)
AllKeys ==
    << <<"other/", "c", ".json">>,
       KeyOf(<<"a">>), KeyOf(<<"a", ".json">>), KeyOf(<<"b">>),
       KeyOf(<<"c">>), KeyOf(<<"d">>), <<"vectors/", "notes", ".txt">> >>

Keys == {AllKeys[i] : i \in 1..Len(AllKeys)}

\* the prefixes a search or a listing is called with
Prefixes == {DefaultPrefix, <<"other/">>}

(***************************************************************************)
(* Python values and JSON text.  A metadata value is None or a dict with   *)
(* one entry or none; the value of the entry is a str, a list, a tuple or  *)
(* a set (which json.dumps cannot serialise).                              *)
(***************************************************************************)
PyNone == [ty |-> "None", key |-> "", vty |-> "", v |-> <<>>]
PyEmptyDict == [ty |-> "dict", key |-> "", vty |-> "", v |-> <<>>]
PyDict(k, vty, v) == [ty |-> "dict", key |-> k, vty |-> vty, v |-> v]

\* the metadata the caller passes
Metas ==
    { PyNone,
      PyEmptyDict,
      PyDict("category", "str", <<"tech">>),
      PyDict("tags", "list", <<"x", "y">>),
      PyDict("tags", "tuple", <<"x", "y">>),
      PyDict("tags", "set", <<"x", "y">>) }

\* Python's truth value of a metadata argument: None and {} are falsy
Truthy(m) == m.ty = "dict" /\ m.key # ""

\* whether json.dumps accepts the value (a set raises TypeError)
Serialisable(m) == m.vty # "set"

\* json.dumps of a metadata value: None becomes null, a dict an object; in
\* the dict a str becomes a JSON string, a list and a tuple both become a
\* JSON array
DumpsMeta(m) ==
    [ty |-> IF m.ty = "None" THEN "null" ELSE "object",
     key |-> m.key,
     vty |-> CASE m.vty = "str" -> "string"
               [] m.vty = "list" -> "array"
               [] m.vty = "tuple" -> "array"
               [] OTHER -> "",
     v |-> m.v]

\* json.loads of a JSON value: null becomes None, an object a dict; in the
\* object a string becomes a str, an array a list
LoadsMeta(j) ==
    [ty |-> IF j.ty = "null" THEN "None" ELSE "dict",
     key |-> j.key,
     vty |-> CASE j.vty = "string" -> "str"
               [] j.vty = "array" -> "list"
               [] OTHER -> "",
     v |-> j.v]

\* The body of an object: JSON text, or bytes that are not JSON.  `has` is
\* the set of members the JSON object has.
NoObject == [json |-> FALSE, has |-> {}, id |-> <<>>, vector |-> <<>>,
             metadata |-> DumpsMeta(PyEmptyDict), absent |-> TRUE]

Garbage == [json |-> FALSE, has |-> {}, id |-> <<>>, vector |-> <<>>,
            metadata |-> DumpsMeta(PyEmptyDict), absent |-> FALSE]

\* json.dumps(data) for the dict insert_vector builds
Dumps(data) ==
    [json |-> TRUE, has |-> {"id", "vector", "metadata"}, id |-> data.id,
     vector |-> data.vector, metadata |-> DumpsMeta(data.metadata),
     absent |-> FALSE]

\* json.loads(body): the dict with the members the text has
Loads(body) ==
    [has |-> body.has, id |-> body.id, vector |-> body.vector,
     metadata |-> LoadsMeta(body.metadata)]

\* whether json.loads(body) returns (it raises on bytes that are not JSON)
Parses(body) == body.json

(***************************************************************************)
(* cosine_similarity.  np.dot raises ValueError when the two arrays differ *)
(* in length; the quotient dot/(norm1*norm2) is kept as the exact fraction *)
(* sign(dot)*dot^2 / (norm1^2 * norm2^2), which orders as the cosine does. *)
(***************************************************************************)
\* the vectors the caller stores (tenths: <<9, 1>> is [0.9, 0.1])
Vectors == {<<10, 0>>, <<0, 10>>, <<9, 1>>, <<0, 0>>, <<10>>}

\* the query vectors of a search
Queries == {<<10, 0>>, <<1, 1>>, <<0, 0>>, <<10>>}

RECURSIVE DotUpTo(_, _, _)
DotUpTo(a, b, n) == IF n = 0 THEN 0 ELSE DotUpTo(a, b, n - 1) + a[n] * b[n]

\* np.dot(vec1_np, vec2_np), defined when the lengths agree
Dot(a, b) == DotUpTo(a, b, Len(a))

\* np.dot raises ValueError: shapes not aligned
DotRaises(vec1, vec2) == Len(vec1) # Len(vec2)

\* np.linalg.norm(v) squared
NormSq(v) == Dot(v, v)

Sign(x) == IF x > 0 THEN 1 ELSE IF x < 0 THEN -1 ELSE 0

ZeroScore == [num |-> 0, den |-> 1]

\* a faulty similarity: the guard on the norms left out, so that numpy
\* divides by zero and gives nan (here 0/0)
CosineWithoutGuard(vec1, vec2) ==
    LET dot_product == Dot(vec1, vec2)
    IN  [num |-> Sign(dot_product) * dot_product * dot_product,
         den |-> NormSq(vec1) * NormSq(vec2)]

\* cosine_similarity(vec1, vec2), for vectors of one length
CosineSimilarity(vec1, vec2) ==
    LET dot_product == Dot(vec1, vec2)
        norm1sq == NormSq(vec1)
        norm2sq == NormSq(vec2)
    IN  IF norm1sq = 0 \/ norm2sq = 0
        THEN ZeroScore
        ELSE [num |-> Sign(dot_product) * dot_product * dot_product,
              den |-> norm1sq * norm2sq]

\* s1 < s2, s1 <= s2 and s1 = s2 as numbers
ScoreLess(s1, s2) == s1.num * s2.den < s2.num * s1.den
ScoreLeq(s1, s2) == s1.num * s2.den <= s2.num * s1.den
ScoreEq(s1, s2) == s1.num * s2.den = s2.num * s1.den

(***************************************************************************)
(* The bucket, as the S3 client shows it.                                  *)
(***************************************************************************)
\* the most keys one list_objects_v2 response holds when the call passes no
\* MaxKeys (1000 in S3; scaled down)
PageSize == 3

RECURSIVE KeysFrom(_, _, _)
\* the keys of the bucket from position i of AllKeys on that start with
\* prefix, in listing order
KeysFrom(s, prefix, i) ==
    IF i > Len(AllKeys) THEN <<>>
    ELSE IF ~s[AllKeys[i]].absent /\ StartsWith(AllKeys[i], prefix)
         THEN <<AllKeys[i]>> \o KeysFrom(s, prefix, i + 1)
         ELSE KeysFrom(s, prefix, i + 1)

\* every key of the bucket under prefix, in listing order
KeysUnder(s, prefix) == KeysFrom(s, prefix, 1)

Min(a, b) == IF a <= b THEN a ELSE b
Max(a, b) == IF a >= b THEN a ELSE b

\* a faulty listing: Prefix= left out of the call, every key is listed
ListIgnoringPrefix(s, prefix, max_keys) ==
    LET all == KeysFrom(s, <<>>, 1)
    IN  SubSeq(all, 1, IF Len(all) <= max_keys THEN Len(all) ELSE max_keys)

\* response['Contents'] of list_objects_v2(Bucket, Prefix, MaxKeys=max_keys):
\* the first max_keys keys under the prefix; <<>> stands for a response
\* without 'Contents'
ListObjectsV2(s, prefix, max_keys) ==
    LET all == KeysUnder(s, prefix)
    IN  SubSeq(all, 1, Min(Len(all), max_keys))

RECURSIVE IdsFrom(_, _, _)
\* the loop of list_vectors over response['Contents'] from position i on:
\* a key that ends with .json gives key.replace(prefix, '').replace('.json',
\* ''), any other key gives nothing
IdsFrom(contents, prefix, i) ==
    IF i > Len(contents) THEN <<>>
    ELSE IF EndsWith(contents[i], JsonSuffix)
         THEN <<Replace(Replace(contents[i], prefix), JsonSuffix)>>
                 \o IdsFrom(contents, prefix, i + 1)
         ELSE IdsFrom(contents, prefix, i + 1)

\* list_vectors(prefix, max_keys): S3 answers MaxKeys=max_keys with at most
\* a page of keys; a listing that raises gives []
ListVectors(s, prefix, max_keys, listFails) ==
    IF listFails THEN <<>>
    ELSE IdsFrom(ListObjectsV2(s, prefix, Min(max_keys, PageSize)), prefix, 1)

\* put_object(Key=key, Body=body)
PutObject(s, key, body) == [s EXCEPT ![key] = body]

\* delete_object(Key=key): removing a key that is absent is no error in S3
DeleteObject(s, key) == [s EXCEPT ![key] = NoObject]

(***************************************************************************)
(* insert_vector, get_vector, delete_vector.                               *)
(***************************************************************************)
\* a faulty insert: the metadata is serialised as given (the `or {}` left out)
InsertDataAsGiven(vector_id, vector, metadata) ==
    [id |-> vector_id, vector |-> vector, metadata |-> metadata]

\* the dict insert_vector serialises
InsertData(vector_id, vector, metadata) ==
    [id |-> vector_id, vector |-> vector,
     metadata |-> IF Truthy(metadata) THEN metadata ELSE PyEmptyDict]

\* a faulty insert_vector: the object is written although the call fails
InsertVectorWritingFirst(s, vector_id, vector, metadata, putFails) ==
    IF ~Serialisable(metadata)
    THEN [store |-> s, ret |-> FALSE]
    ELSE [store |-> PutObject(s, KeyOf(vector_id),
                              Dumps(InsertData(vector_id, vector, metadata))),
          ret |-> ~putFails]

\* insert_vector(vector_id, vector, metadata) on bucket s, where putFails says
\* that put_object raises: the bucket afterwards and the value returned
InsertVector(s, vector_id, vector, metadata, putFails) ==
    IF ~Serialisable(metadata) \/ putFails
    THEN [store |-> s, ret |-> FALSE]
    ELSE [store |-> PutObject(s, KeyOf(vector_id),
                              Dumps(InsertData(vector_id, vector, metadata))),
          ret |-> TRUE]

\* what get_vector returns when it returns None
NoRecord == [has |-> {}, id |-> <<>>, vector |-> <<>>,
             metadata |-> PyNone]

\* get_vector(vector_id), where getFails says that get_object raises for a
\* reason other than a missing key
GetVector(s, vector_id, getFails) ==
    LET body == s[KeyOf(vector_id)]
    IN  IF getFails \/ body.absent \/ ~Parses(body)
        THEN [found |-> FALSE, record |-> NoRecord]
        ELSE [found |-> TRUE, record |-> Loads(body)]

\* a faulty delete: a key the bucket does not hold is reported as a failure
DeleteVectorStrict(s, vector_id, deleteFails) ==
    IF deleteFails \/ s[KeyOf(vector_id)].absent
    THEN [store |-> s, ret |-> FALSE]
    ELSE [store |-> DeleteObject(s, KeyOf(vector_id)), ret |-> TRUE]

\* delete_vector(vector_id), where deleteFails says that delete_object raises
DeleteVector(s, vector_id, deleteFails) ==
    IF deleteFails
    THEN [store |-> s, ret |-> FALSE]
    ELSE [store |-> DeleteObject(s, KeyOf(vector_id)), ret |-> TRUE]

RECURSIVE BatchUntilFailure(_, _, _, _)
\* a faulty loop: the first insert that fails ends the batch
BatchUntilFailure(s, vectors, failing, i) ==
    IF i > Len(vectors) THEN [store |-> s, ret |-> 0]
    ELSE LET one == InsertVector(s, vectors[i].id, vectors[i].vector,
                                 vectors[i].metadata, i \in failing)
             rest == BatchUntilFailure(one.store, vectors, failing, i + 1)
         IN  IF one.ret
             THEN [store |-> rest.store, ret |-> rest.ret + 1]
             ELSE [store |-> s, ret |-> 0]

RECURSIVE BatchFrom(_, _, _, _)
\* the loop of batch_insert_vectors from item i on: failing is the set of
\* positions whose put_object raises
BatchFrom(s, vectors, failing, i) ==
    IF i > Len(vectors) THEN [store |-> s, ret |-> 0]
    ELSE LET one == InsertVector(s, vectors[i].id, vectors[i].vector,
                                 vectors[i].metadata, i \in failing)
             rest == BatchFrom(one.store, vectors, failing, i + 1)
         IN  [store |-> rest.store,
              ret |-> rest.ret + (IF one.ret THEN 1 ELSE 0)]

\* batch_insert_vectors(vectors)
BatchInsertVectors(s, vectors, failing) == BatchFrom(s, vectors, failing, 1)

(***************************************************************************)
(* search_similar_vectors.                                                 *)
(***************************************************************************)
\* whether the body of the loop raises for the object at key (and the
\* candidate is skipped): get_object raises, json.loads raises,
\* vector_data['vector'] or vector_data['id'] raises KeyError, or np.dot
\* raises on the two lengths
CandidateRaises(s, key, query_vector, getFailed) ==
    \/ key \in getFailed
    \/ s[key].absent
    \/ ~Parses(s[key])
    \/ "vector" \notin Loads(s[key]).has
    \/ DotRaises(query_vector, Loads(s[key]).vector)
    \/ "id" \notin Loads(s[key]).has

\* the dict appended to similarities for a candidate
ScoredResult(vector_data, query_vector) ==
    [id |-> vector_data.id,
     similarity |-> CosineSimilarity(query_vector, vector_data.vector),
     metadata |-> IF "metadata" \in vector_data.has
                  THEN vector_data.metadata ELSE PyEmptyDict,
     vector |-> vector_data.vector]

RECURSIVE ScanUntilFailure(_, _, _, _, _)
\* a faulty loop: the first candidate that raises ends the scan (break where
\* the source has continue)
ScanUntilFailure(s, contents, query_vector, getFailed, i) ==
    IF i > Len(contents) THEN <<>>
    ELSE IF CandidateRaises(s, contents[i], query_vector, getFailed)
         THEN <<>>
         ELSE <<ScoredResult(Loads(s[contents[i]]), query_vector)>>
              \o ScanUntilFailure(s, contents, query_vector, getFailed, i + 1)

RECURSIVE ScanFrom(_, _, _, _, _)
\* the for loop over response['Contents'] from position i on: similarities
\* in the order the candidates were listed
ScanFrom(s, contents, query_vector, getFailed, i) ==
    IF i > Len(contents) THEN <<>>
    ELSE IF CandidateRaises(s, contents[i], query_vector, getFailed)
         THEN ScanFrom(s, contents, query_vector, getFailed, i + 1)
         ELSE <<ScoredResult(Loads(s[contents[i]]), query_vector)>>
              \o ScanFrom(s, contents, query_vector, getFailed, i + 1)

\* a faulty rank: x goes in front of the elements that compare equal (a sort
\* that is not stable)
RankBeforeEqual(sorted, x) ==
    Cardinality({j \in 1..Len(sorted) :
                    ScoreLess(x.similarity, sorted[j].similarity)})

\* where x goes in a sequence sorted by descending similarity so that it
\* stays behind every element that compares equal: the number of elements
\* that are not smaller than x
RankOf(sorted, x) ==
    Cardinality({j \in 1..Len(sorted) :
                    ~ScoreLess(sorted[j].similarity, x.similarity)})

InsertSorted(sorted, x) ==
    LET r == RankOf(sorted, x)
    IN  SubSeq(sorted, 1, r) \o <<x>> \o SubSeq(sorted, r + 1, Len(sorted))

RECURSIVE SortUpTo(_, _)
SortUpTo(similarities, n) ==
    IF n = 0 THEN <<>>
    ELSE InsertSorted(SortUpTo(similarities, n - 1), similarities[n])

\* a faulty sort: no sort at all
NoSort(similarities) == similarities

RECURSIVE SortAscendingUpTo(_, _)
SortAscendingUpTo(similarities, n) ==
    IF n = 0 THEN <<>>
    ELSE LET sorted == SortAscendingUpTo(similarities, n - 1)
             x == similarities[n]
             r == Cardinality({j \in 1..Len(sorted) :
                                 ~ScoreLess(x.similarity, sorted[j].similarity)})
         IN  SubSeq(sorted, 1, r) \o <<x>> \o SubSeq(sorted, r + 1, Len(sorted))

\* a faulty sort: reverse=True left out
SortAscending(similarities) ==
    SortAscendingUpTo(similarities, Len(similarities))

\* similarities.sort(key=lambda x: x['similarity'], reverse=True): a stable
\* sort, so equal similarities keep their order
SortDescending(similarities) == SortUpTo(similarities, Len(similarities))

\* a faulty slice: seq[:k + 1]
SliceOneMore(seq, k) ==
    IF k + 1 >= 0 THEN SubSeq(seq, 1, Min(k + 1, Len(seq)))
    ELSE SubSeq(seq, 1, Max(Len(seq) + k + 1, 0))

\* seq[:k] of Python: the first k elements, and for a negative k all but
\* the last -k
Slice(seq, k) ==
    IF k >= 0 THEN SubSeq(seq, 1, Min(k, Len(seq)))
    ELSE SubSeq(seq, 1, Max(Len(seq) + k, 0))

\* search_similar_vectors(query_vector, k, prefix) on bucket s, where
\* listFails says that list_objects_v2 raises and getFailed is the set of
\* keys whose get_object raises.  Every exception is caught inside, so the
\* call never raises.
SearchSimilarVectors(s, query_vector, k, prefix, listFails, getFailed) ==
    LET contents == ListObjectsV2(s, prefix, PageSize)
        similarities == ScanFrom(s, contents, query_vector, getFailed, 1)
    IN  IF listFails THEN [result |-> <<>>, raised |-> "none"]
        ELSE IF contents = <<>> THEN [result |-> <<>>, raised |-> "none"]
        ELSE [result |-> Slice(SortDescending(similarities), k),
              raised |-> "none"]

(***************************************************************************)
(* The calls.  A call is one step: it reads and writes the bucket and      *)
(* leaves its arguments and its result in `last`; Return is the caller     *)
(* going on to its next call.                                              *)
(***************************************************************************)
NoCall == [op |-> "none"]

\* objects other writers of the bucket leave under its keys: bytes that are
\* not JSON, and a JSON object without a 'vector' member
NoVectorBody ==
    [json |-> TRUE, has |-> {"id"}, id |-> <<"z">>, vector |-> <<>>,
     metadata |-> DumpsMeta(PyEmptyDict), absent |-> FALSE]

ForeignBodies == {Garbage, NoVectorBody}

\* the (vector, metadata) pairs inserted where the calls on single records
\* are studied: every metadata, two vectors
StorePayloads == {<<10, 0>>, <<0, 10>>} \X Metas

\* the (vector, metadata) pairs inserted where search is studied: every
\* vector, no metadata
SearchPayloads == Vectors \X {PyEmptyDict}

\* the records batches are made of; the last cannot be serialised
BatchItems ==
    { [id |-> <<"a">>, vector |-> <<10, 0>>, metadata |-> PyNone],
      [id |-> <<"b">>, vector |-> <<0, 10>>,
       metadata |-> PyDict("category", "str", <<"tech">>)],
      [id |-> <<"c">>, vector |-> <<10, 0>>,
       metadata |-> PyDict("tags", "tuple", <<"x", "y">>)],
      [id |-> <<"d">>, vector |-> <<0, 10>>,
       metadata |-> PyDict("tags", "set", <<"x", "y">>)] }

\* the batches: every sequence of at most MaxBatch distinct batch items
Batches ==
    UNION {{b \in [1..n -> BatchItems] :
               \A i, j \in 1..n : i # j => b[i] # b[j]} : n \in 0..MaxBatch}

Init ==
    /\ store = [key \in Keys |-> NoObject]
    /\ pc = "idle"
    /\ last = NoCall

\* a call of insert_vector with an id and a payload of the given sets
InsertOf(ids, payloads) ==
    /\ pc = "idle"
    /\ \E vector_id \in ids, p \in payloads, putFails \in BOOLEAN :
         LET r == InsertVector(store, vector_id, p[1], p[2], putFails)
         IN  /\ store' = r.store
             /\ last' = [op |-> "insert", id |-> vector_id, vector |-> p[1],
                         metadata |-> p[2], putFailed |-> putFails,
                         ret |-> r.ret]
    /\ pc' = "done"

InsertFrom(payloads) == InsertOf(Ids, payloads)

Insert == InsertFrom(StorePayloads)

\* the (vector, metadata) pairs inserted where listing is studied
ListPayloads == {<<10, 0>>, <<0, 10>>} \X {PyEmptyDict}

InsertForList == InsertOf(ListIds, ListPayloads)

\* the (vector, metadata) pairs inserted where every call is studied
\* together: two vectors of different dimensions
FramePayloads == {<<10, 0>>, <<10>>} \X {PyEmptyDict}

InsertForFrame == InsertOf(Ids, FramePayloads)

InsertForSearch == InsertFrom(SearchPayloads)

BatchInsert ==
    /\ pc = "idle"
    /\ \E vectors \in Batches :
         \E failing \in SUBSET (1..Len(vectors)) :
            LET r == BatchInsertVectors(store, vectors, failing)
            IN  /\ store' = r.store
                /\ last' = [op |-> "batch", vectors |-> vectors,
                            failing |-> failing, ret |-> r.ret]
    /\ pc' = "done"

Get ==
    /\ pc = "idle"
    /\ \E vector_id \in Ids, getFails \in BOOLEAN :
         LET r == GetVector(store, vector_id, getFails)
         IN  last' = [op |-> "get", id |-> vector_id, getFailed |-> getFails,
                      found |-> r.found, record |-> r.record]
    /\ pc' = "done"
    /\ UNCHANGED store

Delete ==
    /\ pc = "idle"
    /\ \E vector_id \in Ids, deleteFails \in BOOLEAN :
         LET r == DeleteVector(store, vector_id, deleteFails)
         IN  /\ store' = r.store
             /\ last' = [op |-> "delete", id |-> vector_id,
                         deleteFailed |-> deleteFails,
                         existed |-> ~store[KeyOf(vector_id)].absent,
                         ret |-> r.ret]
    /\ pc' = "done"

Search ==
    /\ pc = "idle"
    /\ \E query_vector \in Queries, k \in -1..MaxK, prefix \in Prefixes,
          listFails \in BOOLEAN :
         LET contents == IF listFails THEN <<>>
                         ELSE ListObjectsV2(store, prefix, PageSize)
         IN  \E getFailed \in SUBSET {contents[i] : i \in 1..Len(contents)} :
                LET r == SearchSimilarVectors(store, query_vector, k, prefix,
                                              listFails, getFailed)
                IN  last' = [op |-> "search", query |-> query_vector, k |-> k,
                             prefix |-> prefix, listFailed |-> listFails,
                             contents |-> contents, getFailed |-> getFailed,
                             result |-> r.result, raised |-> r.raised]
    /\ pc' = "done"
    /\ UNCHANGED store

\* another writer of the bucket puts an object the client did not write
\* under one of the client's keys
ForeignPut ==
    /\ pc = "idle"
    /\ \E vector_id \in Ids, body \in ForeignBodies :
         store' = PutObject(store, KeyOf(vector_id), body)
    /\ UNCHANGED <<pc, last>>

\* another writer of the bucket puts an object under a key of its own
PutOther ==
    /\ pc = "idle"
    /\ \E key \in ForeignKeys : store' = PutObject(store, key, Garbage)
    /\ UNCHANGED <<pc, last>>

\* a call of list_vectors
List ==
    /\ pc = "idle"
    /\ \E prefix \in Prefixes, max_keys \in 0..MaxListKeys,
          listFails \in BOOLEAN :
         last' = [op |-> "list", prefix |-> prefix, max_keys |-> max_keys,
                  listFailed |-> listFails,
                  contents |-> IF listFails THEN <<>>
                               ELSE ListObjectsV2(store, prefix,
                                                  Min(max_keys, PageSize)),
                  result |-> ListVectors(store, prefix, max_keys, listFails)]
    /\ pc' = "done"
    /\ UNCHANGED store

\* the caller takes the result and goes on to its next call
Return ==
    /\ pc = "done"
    /\ pc' = "idle"
    /\ last' = NoCall
    /\ UNCHANGED store

\* the calls on single records and on batches
Next == Insert \/ BatchInsert \/ Get \/ Delete \/ Return

Spec == Init /\ [][Next]_vars

\* searches over a bucket filled by inserts, deletes and other writers
NextSearch == InsertForSearch \/ Delete \/ ForeignPut \/ Search \/ Return

SpecSearch == Init /\ [][NextSearch]_vars

\* listings of a bucket filled by inserts and other writers
NextList == InsertForList \/ PutOther \/ List \/ Return

SpecList == Init /\ [][NextList]_vars

\* every call of the client, on a bucket no one else writes
NextFrame ==
    \/ InsertForFrame
    \/ BatchInsert
    \/ Delete
    \/ Get
    \/ Search
    \/ List
    \/ Return

SpecFrame == Init /\ [][NextFrame]_vars

(***************************************************************************)
(* What the properties below speak of.                                     *)
(***************************************************************************)
\* the search that returned last
IsSearch == pc = "done" /\ last.op = "search"

\* A valid candidate of the last search: a key of the list response whose
\* retrieval, parsing and scoring all succeeded.  (That the list response
\* holds every stored key is a claim of its own, C10.)
ValidCandidate(key) ==
    ~CandidateRaises(store, key, last.query, last.getFailed)

\* the valid candidates of the last search in the order they were listed
ValidCandidates == SelectSeq(last.contents, ValidCandidate)

\* what search reports for a valid candidate
ResultFor(key) == ScoredResult(Loads(store[key]), last.query)

\* the ways to read the result as a choice of distinct valid candidates, one
\* per position
Choices ==
    {f \in [1..Len(last.result) -> 1..Len(ValidCandidates)] :
        /\ \A i, j \in DOMAIN f : i # j => f[i] # f[j]
        /\ \A i \in DOMAIN f : last.result[i] = ResultFor(ValidCandidates[f[i]])}

\* the bucket of the scenario: [1,0], [0,1] and [0.9,0.1] under a, b and c
ScenarioStore ==
    /\ store[KeyOf(<<"a">>)] = Dumps(InsertData(<<"a">>, <<10, 0>>, PyNone))
    /\ store[KeyOf(<<"b">>)] = Dumps(InsertData(<<"b">>, <<0, 10>>, PyNone))
    /\ store[KeyOf(<<"c">>)] = Dumps(InsertData(<<"c">>, <<9, 1>>, PyNone))
    /\ store[KeyOf(<<"d">>)].absent

\* the search of the scenario: query [1,0], k = 2, nothing fails
ScenarioSearch ==
    /\ IsSearch /\ ScenarioStore
    /\ last.query = <<10, 0>> /\ last.k = 2 /\ last.prefix = DefaultPrefix
    /\ ~last.listFailed /\ last.getFailed = {}

\* C1: a search with k >= 1 returns the k highest-scoring valid candidates:
\* the result is made of distinct valid candidates, and a valid candidate
\* is left out only when the result holds k entries that all score at least
\* as high as it does.  In the scenario ([1,0], [0,1], [0.9,0.1] stored,
\* query [1,0], k = 2) the result is the record [1,0], then [0.9,0.1].
C1_TopK ==
    /\ (IsSearch /\ last.k >= 1) =>
          \E f \in Choices :
             \A c \in 1..Len(ValidCandidates) :
                (\A i \in DOMAIN f : f[i] # c) =>
                   /\ Len(last.result) = last.k
                   /\ \A i \in DOMAIN f :
                         ScoreLeq(ResultFor(ValidCandidates[c]).similarity,
                                  last.result[i].similarity)
    /\ ScenarioSearch =>
          /\ Len(last.result) = 2
          /\ last.result[1].id = <<"a">> /\ last.result[1].vector = <<10, 0>>
          /\ last.result[2].id = <<"c">> /\ last.result[2].vector = <<9, 1>>

\* the scenario's search has run, and a search has left out a valid
\* candidate that scores strictly lower than all it returned
C1_Witness ==
    /\ ScenarioSearch
    /\ Len(last.result) = 2
    /\ ScoreLess(ResultFor(KeyOf(<<"b">>)).similarity,
                 last.result[2].similarity)

\* C2: the result of a search is sorted by descending score, whatever the
\* bucket, the query and k.
C2_SortedDescending ==
    IsSearch =>
       \A i, j \in 1..Len(last.result) :
          i < j => ~ScoreLess(last.result[i].similarity,
                              last.result[j].similarity)

\* a search returned two results of different score, the higher one from
\* the key that was listed later
C2_Witness ==
    /\ IsSearch
    /\ Len(last.result) >= 2
    /\ ScoreLess(last.result[2].similarity, last.result[1].similarity)
    /\ last.result[1].id = <<"c">> /\ last.result[2].id = <<"a">>

\* C3: for k >= 0 the result of a search has exactly min(k, number of valid
\* candidates) entries; with fewer than k valid candidates all are returned.
C3_Length ==
    (IsSearch /\ last.k >= 0) =>
       Len(last.result) = Min(last.k, Len(ValidCandidates))

\* a search asked for more than the valid candidates there were, a candidate
\* having been skipped, and returned all of them
C3_Witness ==
    /\ IsSearch
    /\ Len(last.contents) = 3
    /\ Len(ValidCandidates) = 2
    /\ last.k = 3
    /\ Len(last.result) = 2

\* C4: a search called with k <= 0 fails with InvalidArgument and returns no
\* result sequence.
C4_NonPositiveKFails ==
    (IsSearch /\ last.k <= 0) => last.raised = "InvalidArgument"

\* the object at a listed key could not be retrieved or parsed
RetrievalOrParsingFailed(key) ==
    \/ key \in last.getFailed
    \/ ~Parses(store[key])
    \/ {"id", "vector"} \ Loads(store[key]).has # {}

\* the keys of the list response, as a set
Listed == {last.contents[i] : i \in 1..Len(last.contents)}

\* C5: a candidate whose retrieval or parsing fails is skipped and the search
\* goes on: the call does not raise, and every valid candidate, wherever it
\* stands relative to the failing ones, is in the result unless the result
\* holds k entries that all score at least as high.
C5_FailureIsSkipped ==
    (IsSearch /\ \E key \in Listed : RetrievalOrParsingFailed(key)) =>
       /\ last.raised = "none"
       /\ last.k >= 1 =>
             \A key \in Listed :
                ValidCandidate(key) =>
                   \/ \E i \in 1..Len(last.result) :
                         last.result[i] = ResultFor(key)
                   \/ /\ Len(last.result) = last.k
                      /\ \A i \in 1..Len(last.result) :
                            ScoreLeq(ResultFor(key).similarity,
                                     last.result[i].similarity)

\* of three listed candidates the first could not be retrieved and the
\* second could not be parsed; the third is the result
C5_Witness ==
    /\ IsSearch
    /\ Len(last.contents) = 3
    /\ last.contents[1] \in last.getFailed
    /\ ~Parses(store[last.contents[2]])
    /\ ValidCandidate(last.contents[3])
    /\ last.k >= 1
    /\ last.result = <<ResultFor(last.contents[3])>>

\* the objects of the list response that hold a record with a vector
ListedVectors ==
    {key \in Listed :
        /\ key \notin last.getFailed
        /\ Parses(store[key])
        /\ {"id", "vector"} \subseteq Loads(store[key]).has}

\* the query's dimensionality differs from that of every stored vector
QueryMismatch ==
    /\ ListedVectors # {}
    /\ \A key \in ListedVectors :
          Len(Loads(store[key]).vector) # Len(last.query)

\* C8: a query whose dimensionality differs from the stored vectors aborts
\* the search with DimensionMismatch, while one stored candidate of another
\* dimensionality is skipped and the others are still ranked.
C8_QueryMismatchAborts ==
    /\ (IsSearch /\ QueryMismatch) => last.raised = "DimensionMismatch"
    /\ (IsSearch /\ ~QueryMismatch /\ last.k >= 1) =>
          /\ last.raised = "none"
          /\ \A i \in 1..Len(last.result) :
                Len(last.result[i].vector) = Len(last.query)
          /\ (ValidCandidates # <<>>) => last.result # <<>>

\* C9: when the list call fails the search reports an error to its caller.
C9_ListFailurePropagates ==
    (IsSearch /\ last.listFailed) => last.raised # "none"

\* C10: a search retrieves every key the bucket holds under the prefix.
C10_EveryKeyScanned ==
    (IsSearch /\ ~last.listFailed) =>
       \A key \in Keys :
          (~store[key].absent /\ StartsWith(key, last.prefix)) =>
             key \in Listed

(***************************************************************************)
(* Properties of the calls on records.                                     *)
(***************************************************************************)
\* item i of the batch that returned last was put
BatchItemPut(c, i) ==
    i \notin c.failing /\ Serialisable(c.vectors[i].metadata)

\* C6: batch_insert_vectors goes through the whole batch whatever fails: it
\* returns the number of items that were put, every item that was put is
\* retrievable by its id afterwards, and the key of an id none of whose
\* items was put holds what it held before.
C6_BatchCountsSuccesses ==
    [][(pc = "idle" /\ last'.op = "batch") =>
         LET c == last'
             put == {i \in 1..Len(c.vectors) : BatchItemPut(c, i)}
         IN  /\ c.ret = Cardinality(put)
             /\ \A i \in put :
                   LET g == GetVector(store', c.vectors[i].id, FALSE)
                   IN  /\ g.found
                       /\ g.record.id = c.vectors[i].id
                       /\ g.record.vector = c.vectors[i].vector
             /\ \A id \in Ids :
                   (\A i \in put : c.vectors[i].id # id) =>
                      store'[KeyOf(id)] = store[KeyOf(id)]]_vars

\* a batch of three whose second put failed returned 2; the first and the
\* third item are retrievable, the second is not stored
C6_Witness ==
    /\ pc = "done" /\ last.op = "batch"
    /\ Len(last.vectors) = 3 /\ last.failing = {2}
    /\ last.vectors[1].id = <<"a">>
    /\ last.vectors[2].id = <<"b">>
    /\ last.vectors[3].id = <<"c">>
    /\ last.ret = 2
    /\ GetVector(store, <<"a">>, FALSE).found
    /\ GetVector(store, <<"c">>, FALSE).found
    /\ ~GetVector(store, <<"b">>, FALSE).found

\* the insert that returned last and succeeded
InsertSucceeded == pc = "done" /\ last.op = "insert" /\ last.ret

\* what JSON makes of a metadata argument: no metadata is the empty
\* mapping, a tuple is a list
AsJSONReturns(metadata) ==
    IF metadata.ty = "None" THEN PyEmptyDict
    ELSE IF metadata.vty = "tuple" THEN [metadata EXCEPT !.vty = "list"]
    ELSE metadata

\* C7 as claimed: after a successful insert, get_vector of the id returns
\* the id, the vector and the metadata that were inserted.
C7_RoundTripIdentical ==
    InsertSucceeded =>
       LET g == GetVector(store, last.id, FALSE)
       IN  /\ g.found
           /\ g.record.id = last.id
           /\ g.record.vector = last.vector
           /\ g.record.metadata = last.metadata

\* C7 as amended: after a successful insert, get_vector of the id returns
\* the id and the vector that were inserted, and the metadata as JSON
\* returns it: the empty mapping where none was given, lists where tuples
\* were given, and otherwise the metadata inserted.
C7_RoundTripNormalised ==
    InsertSucceeded =>
       LET g == GetVector(store, last.id, FALSE)
       IN  /\ g.found
           /\ g.record.has = {"id", "vector", "metadata"}
           /\ g.record.id = last.id
           /\ g.record.vector = last.vector
           /\ g.record.metadata = AsJSONReturns(last.metadata)

\* a record inserted without metadata is retrieved with the empty mapping
C7_Witness ==
    /\ InsertSucceeded
    /\ last.metadata = PyNone
    /\ GetVector(store, last.id, FALSE).found
    /\ GetVector(store, last.id, FALSE).record.metadata = PyEmptyDict
    /\ GetVector(store, last.id, FALSE).record.vector = last.vector


(***************************************************************************)
(* Ties, empty scopes and zero vectors in a search.                        *)
(***************************************************************************)
\* where the list response of the last search holds the key
PositionOf(key) ==
    CHOOSE i \in 1..Len(last.contents) : last.contents[i] = key

\* C11: candidates of equal score stand in the result in the order the list
\* call enumerated them, and when k cuts a run of equal scores the ones
\* listed first are kept; so the result is fixed by the query, k and the
\* list order.
C11_TiesInListOrder ==
    IsSearch =>
       /\ \A i, j \in 1..Len(last.result) :
             (i < j /\ ScoreEq(last.result[i].similarity,
                               last.result[j].similarity)) =>
                PositionOf(KeyOf(last.result[i].id))
                   < PositionOf(KeyOf(last.result[j].id))
       /\ last.k >= 1 =>
             \A key \in Listed :
                (/\ ValidCandidate(key)
                 /\ \A i \in 1..Len(last.result) :
                       last.result[i] # ResultFor(key)) =>
                   \A i \in 1..Len(last.result) :
                      ScoreEq(last.result[i].similarity,
                              ResultFor(key).similarity) =>
                         PositionOf(KeyOf(last.result[i].id)) < PositionOf(key)

\* three candidates of equal score were listed, k = 2 kept the first two in
\* their list order
C11_Witness ==
    /\ IsSearch
    /\ Len(last.contents) = 3 /\ Len(ValidCandidates) = 3
    /\ last.k = 2 /\ Len(last.result) = 2
    /\ \A key \in Listed :
          ScoreEq(ResultFor(key).similarity, last.result[1].similarity)
    /\ last.result[1] = ResultFor(last.contents[1])
    /\ last.result[2] = ResultFor(last.contents[2])
    /\ last.result[1].vector # last.result[2].vector


\* the scope of the last search is empty: the bucket holds no key under the
\* prefix
EmptyScope ==
    \A key \in Keys : StartsWith(key, last.prefix) => store[key].absent

\* C15: a search with k >= 1 over an empty scope returns the empty sequence
\* and raises nothing, whatever the query.
C15_EmptyScopeIsEmptyResult ==
    (IsSearch /\ ~last.listFailed /\ EmptyScope /\ last.k >= 1) =>
       /\ last.result = <<>>
       /\ last.raised = "none"

\* a search under a prefix that holds nothing, in a bucket that holds
\* records under another prefix, returned the empty sequence
C15_Witness ==
    /\ IsSearch /\ ~last.listFailed /\ EmptyScope /\ last.k >= 1
    /\ last.prefix = <<"other/">>
    /\ \E id \in Ids : GetVector(store, id, FALSE).found
    /\ last.result = <<>>


\* every component of the vector is zero
IsZeroVector(v) == \A i \in 1..Len(v) : v[i] = 0

\* C16: cosine_similarity is exactly 0.0 when either operand is a zero
\* vector, and so when both are; a stored zero vector of the query's
\* dimensionality is a valid candidate of a search, reported with score 0.0.
C16_ZeroVectorScoresZero ==
    IsSearch =>
       /\ \A i \in 1..Len(last.result) :
             (IsZeroVector(last.query) \/ IsZeroVector(last.result[i].vector))
                => last.result[i].similarity = ZeroScore
       /\ \A key \in Listed :
             (/\ key \notin last.getFailed
              /\ Parses(store[key])
              /\ {"id", "vector"} \subseteq Loads(store[key]).has
              /\ Len(Loads(store[key]).vector) = Len(last.query)
              /\ IsZeroVector(Loads(store[key]).vector)) =>
                /\ ValidCandidate(key)
                /\ ResultFor(key).similarity = ZeroScore
                /\ (last.k >= Len(ValidCandidates)) =>
                      \E i \in 1..Len(last.result) :
                         last.result[i] = ResultFor(key)

\* a search with a non-zero query returned a stored zero vector with score
\* 0.0, behind a record that scores higher
C16_Witness ==
    /\ IsSearch /\ ~IsZeroVector(last.query)
    /\ Len(last.result) = 2
    /\ ~IsZeroVector(last.result[1].vector)
    /\ ScoreLess(ZeroScore, last.result[1].similarity)
    /\ IsZeroVector(last.result[2].vector)
    /\ last.result[2].similarity = ZeroScore

\* a search with a zero query scored a stored non-zero vector and a stored
\* zero vector 0.0
C16_WitnessZeroQuery ==
    /\ IsSearch /\ IsZeroVector(last.query)
    /\ Len(last.result) = 2
    /\ ~IsZeroVector(last.result[1].vector)
    /\ IsZeroVector(last.result[2].vector)
    /\ last.result[1].similarity = ZeroScore
    /\ last.result[2].similarity = ZeroScore


(***************************************************************************)
(* Deleting, overwriting and what a call may change.                       *)
(***************************************************************************)
\* the step is a call of delete_vector that S3 answered
DeleteStep == pc = "idle" /\ last'.op = "delete" /\ ~last'.deleteFailed

\* C14: delete_vector is idempotent: it reports success and leaves the key
\* without an object; when the id was not stored the bucket is as it was,
\* and a second delete of the id changes nothing more.
C14_DeleteIdempotent ==
    [][DeleteStep =>
         /\ last'.ret
         /\ store'[KeyOf(last'.id)].absent
         /\ \A key \in Keys : key # KeyOf(last'.id) => store'[key] = store[key]
         /\ store[KeyOf(last'.id)].absent => store' = store
         /\ DeleteVector(store', last'.id, FALSE)
               = [store |-> store', ret |-> TRUE]]_vars

\* delete_vector of an id that was not stored, in a bucket that holds other
\* records, returned True
C14_Witness ==
    /\ pc = "done" /\ last.op = "delete" /\ ~last.deleteFailed
    /\ ~last.existed
    /\ last.ret
    /\ store[KeyOf(last.id)].absent
    /\ \E id \in Ids : GetVector(store, id, FALSE).found


\* C13: a stored record is immutable: what is stored under an id changes
\* only when the id is deleted; a second insert of the id does not replace
\* it.
C13_StoredRecordImmutable ==
    [][\A id \in Ids :
          (/\ ~store[KeyOf(id)].absent
           /\ store'[KeyOf(id)] # store[KeyOf(id)]) =>
             (last'.op = "delete" /\ last'.id = id)]_vars


(***************************************************************************)
(* Listing.                                                                *)
(***************************************************************************)
\* the listing that returned last
IsList == pc = "done" /\ last.op = "list"

\* the keys of the last list response of the form <prefix><id>.json
ListedOfForm ==
    SelectSeq(last.contents,
              LAMBDA key : /\ StartsWith(key, last.prefix)
                           /\ EndsWith(key, JsonSuffix))

\* the bucket of the scenario: vectors/a.json, vectors/b.json, other/c.json
ListScenario ==
    \A key \in Keys :
       ~store[key].absent <=>
          key \in {KeyOf(<<"a">>), KeyOf(<<"b">>), <<"other/", "c", ".json">>}

\* C12: a listing that succeeds returns, in order, one id for every listed
\* key of the form <prefix><id>.json and nothing else, and each id is the
\* one the key is made of: <prefix><id>.json is the listed key again; over
\* vectors/a.json, vectors/b.json, other/c.json with prefix vectors/ the
\* listing is a, b.
C12_ListReturnsTheIds ==
    (IsList /\ ~last.listFailed) =>
       /\ Len(last.result) = Len(ListedOfForm)
       /\ \A i \in 1..Len(last.result) :
             last.prefix \o last.result[i] \o JsonSuffix = ListedOfForm[i]
       /\ (ListScenario /\ last.prefix = DefaultPrefix /\ last.max_keys >= 2)
             => last.result = << <<"a">>, <<"b">> >>


\* C17: a search, a get or a listing leaves the bucket as it was, whether it
\* succeeds, skips candidates or fails; a step that changes the bucket is a
\* call of insert_vector, batch_insert_vectors or delete_vector; an insert
\* that returns False leaves the bucket as it was.
C17_ReadsLeaveStoreUnchanged ==
    [][/\ last'.op \in {"search", "get", "list"} => store' = store
       /\ store' # store => last'.op \in {"insert", "batch", "delete"}
       /\ (last'.op = "insert" /\ ~last'.ret) => store' = store]_vars

\* a search that skipped a stored candidate and still returned results
C17_Witness ==
    /\ IsSearch
    /\ last.raised = "none"
    /\ last.getFailed # {}
    /\ last.result # <<>>
    /\ \A key \in last.getFailed : ~store[key].absent

====
